---- MODULE Spec2Model ----
(***************************************************************************)
(* Tag-side ranging state machine of software/firmware/dw1000_tag.c.       *)
(* The handlers of the file (start of a ranging event, the timer tasks,    *)
(* the transmit callback and the receive callback) are the actions; the    *)
(* file's globals are the variables.  The radio driver and the timer       *)
(* service are the environment: they deliver timer fires and callbacks.    *)
(***************************************************************************)
EXTENDS Integers, Sequences, FiniteSets, TLC

\* ------------------------------------------------------------------------
\* Sizes.  The three protocol sizes come from headers; the model is checked
\* for small values of them.
NUM_RANGING_BROADCASTS == 3
NUM_RANGING_LISTENING_WINDOWS == 2
MAX_NUM_ANCHOR_RESPONSES == 2
\* number of ranging events one behaviour may start
MaxEvents == 2
\* number of distinct anchors whose ANC_FINAL packets may arrive
NumAnchors == 2

\* ------------------------------------------------------------------------
\* tag_state_e
TSTATE_IDLE == "TSTATE_IDLE"
TSTATE_BROADCASTS == "TSTATE_BROADCASTS"
TSTATE_TRANSITION_TO_ANC_FINAL == "TSTATE_TRANSITION_TO_ANC_FINAL"
TSTATE_LISTENING == "TSTATE_LISTENING"
TSTATE_CALCULATE_RANGE == "TSTATE_CALCULATE_RANGE"

TagStates ==
  {TSTATE_IDLE, TSTATE_BROADCASTS, TSTATE_TRANSITION_TO_ANC_FINAL,
   TSTATE_LISTENING, TSTATE_CALCULATE_RANGE}

\* events the radio driver reports to the transmit callback
DWT_SIG_TX_DONE == "DWT_SIG_TX_DONE"
DWT_SIG_TX_ERROR == "DWT_SIG_TX_ERROR"
TxEvents == {DWT_SIG_TX_DONE, DWT_SIG_TX_ERROR}

\* events the radio driver reports to the receive callback
DWT_SIG_RX_OKAY == "DWT_SIG_RX_OKAY"
RxErrorEvents ==
  {"DWT_SIG_RX_PHR_ERROR", "DWT_SIG_RX_ERROR", "DWT_SIG_RX_SYNCLOSS",
   "DWT_SIG_RX_SFDTIMEOUT", "DWT_SIG_RX_PTOTIMEOUT"}
\* a receive event that is neither success nor one of the five errors
DWT_SIG_RX_TIMEOUT == "DWT_SIG_RX_TIMEOUT"
RxEvents == {DWT_SIG_RX_OKAY, DWT_SIG_RX_TIMEOUT} \cup RxErrorEvents

\* message-type byte of a received packet
MSG_TYPE_PP_NOSLOTS_TAG_POLL == "MSG_TYPE_PP_NOSLOTS_TAG_POLL"
MSG_TYPE_PP_NOSLOTS_ANC_FINAL == "MSG_TYPE_PP_NOSLOTS_ANC_FINAL"
MSG_TYPE_OTHER == "MSG_TYPE_OTHER"
MessageTypes ==
  {MSG_TYPE_PP_NOSLOTS_TAG_POLL, MSG_TYPE_PP_NOSLOTS_ANC_FINAL, MSG_TYPE_OTHER}

\* timer callbacks
TASK_NONE == "none"
TASK_SUBSEQUENCE == "ranging_broadcast_subsequence_task"
TASK_LISTENING == "ranging_listening_window_task"

\* ------------------------------------------------------------------------
\* 32-bit unsigned values are pairs <<high 16 bits, low 16 bits>>;
\* 40-bit timestamps held in a uint64_t are triples
\* <<bits 39..24, bits 23..8, bits 7..0>>.
Half == 65536

U32(hi, lo) == <<hi, lo>>

\* a + b in uint32_t arithmetic
Add32(a, b) ==
  LET lo == a[2] + b[2]
      hi == a[1] + b[1] + (lo \div Half)
  IN  <<hi % Half, lo % Half>>

\* x & 0xFFFFFFFE
ClearLowBit(x) == <<x[1], x[2] - (x[2] % 2)>>

\* ((uint64_t) x) << 8
Shl8(x) == <<x[1], x[2], 0>>

ZeroTime == <<0, 0, 0>>

\* a - b in uint32_t arithmetic
Sub32(a, b) ==
  LET lo == a[2] - b[2]
      borrow == IF lo < 0 THEN 1 ELSE 0
      hi == a[1] - b[1] - borrow
  IN  <<(hi + Half) % Half, (lo + Half) % Half>>

\* t1 < t2 as 64-bit values
TimeLess(t1, t2) ==
  \/ t1[1] < t2[1]
  \/ t1[1] = t2[1] /\ t1[2] < t2[2]
  \/ t1[1] = t2[1] /\ t1[2] = t2[2] /\ t1[3] < t2[3]

\* t2 is later than t1 in unsigned 32-bit wraparound arithmetic on the
\* scheduled times: (t2 - t1) mod 2^32 lies in 1..2^31-1
LaterMod32(t1, t2) ==
  LET d == Sub32(<<t2[1], t2[2]>>, <<t1[1], t1[2]>>)
  IN  d # <<0, 0>> /\ d[1] < Half \div 2

\* DW_DELAY_FROM_PKT_LEN(sizeof(struct pp_tag_poll)), in units of the high
\* 32 bits of the hardware clock
DW_DELAY_FROM_PKT_LEN == U32(0, 600)

\* values of dwt_readsystimestamphi32() at the start of a behaviour and the
\* advance of the clock from one timer fire to the next
StartClocks == {U32(0, 0), U32(65535, 63000), U32(65535, 63935)}
ClockSteps == {U32(0, 1001)}

\* ------------------------------------------------------------------------
\* Received ANC_FINAL packets: the source address, and one value standing
\* for each of the fields the tag copies.
Anchors == 1..NumAnchors
NoAnchor == 0

EmptyRecord ==
  [anchor_addr |-> NoAnchor, tag_poll_TOAs |-> 0,
   anc_final_tx_timestamp |-> ZeroTime, anc_final_rx_timestamp |-> ZeroTime]

\* the hardware receive timestamp and the anchor's dw_time_sent of a packet
\* from anchor a
RxTimestampOf(a) == <<0, 10 + a, 7>>
DwTimeSentOf(a) == U32(0, 20 + a)
TOAsOf(a) == 30 + a

VARIABLES
  tag_state,                 \* _tag_state
  ranging_broadcast_ss_num,  \* _ranging_broadcast_ss_num
  ranging_listening_window_num, \* _ranging_listening_window_num
  ranging_broadcast_ss_send_times, \* _ranging_broadcast_ss_send_times
  anchor_response_count,     \* _anchor_response_count
  anchor_response_times,     \* _anchor_response_times
  pkt_seqNum,                \* pp_tag_poll_pkt.header.seqNum
  pkt_subsequence,           \* pp_tag_poll_pkt.subsequence
  timer_running,             \* _ranging_broadcast_timer is armed
  timer_task,                \* the callback the timer was started with
  systime,                   \* high 32 bits of the hardware clock
  tx_inflight,               \* packet handed to the radio, not yet reported
  sent,                      \* subsequence fields sent in the current event
  events,                    \* ranging events started so far
  tx_failed,                 \* a transmit failure was reported in this event
  calls,                     \* driver and timer calls of the last handler
  op                         \* the last handler and its input

vars ==
  <<tag_state, ranging_broadcast_ss_num, ranging_listening_window_num,
    ranging_broadcast_ss_send_times, anchor_response_count,
    anchor_response_times, pkt_seqNum, pkt_subsequence, timer_running,
    timer_task, systime, tx_inflight, sent, events, tx_failed, calls, op>>

NoPkt == -1
Call(f, a) == [fn |-> f, arg |-> a]
Op(n, e, m, a) == [name |-> n, event |-> e, msg |-> m, arg |-> a]

SendSlots == 0..(NUM_RANGING_BROADCASTS - 1)
RecordSlots == 0..(MAX_NUM_ANCHOR_RESPONSES - 1)

\* ------------------------------------------------------------------------
\* State after the static initialisers and dw1000_tag_init.
Init ==
  /\ tag_state = TSTATE_IDLE
  /\ ranging_broadcast_ss_num = 0
  /\ ranging_listening_window_num = 0
  /\ ranging_broadcast_ss_send_times = [i \in SendSlots |-> ZeroTime]
  /\ anchor_response_count = 0
  /\ anchor_response_times = [i \in RecordSlots |-> EmptyRecord]
  /\ pkt_seqNum = 0
  /\ pkt_subsequence = 0
  /\ timer_running = FALSE
  /\ timer_task = TASK_NONE
  /\ systime \in StartClocks
  /\ tx_inflight = NoPkt
  /\ sent = <<>>
  /\ events = 0
  /\ tx_failed = FALSE
  /\ calls = <<>>
  /\ op = Op("dw1000_tag_init", "none", "none", 0)

\* ------------------------------------------------------------------------
\* a memset of sizeof one element: only the first slot is cleared
ClearSendTimes_FirstOnly(times) ==
  [i \in DOMAIN times |-> IF i = 0 THEN ZeroTime ELSE times[i]]

\* dw1000_tag_start_ranging_event: the memset of the send-time array
ClearSendTimes(times) == [i \in DOMAIN times |-> ZeroTime]

\* the start without the reset of the subsequence index
FirstSubsequence_NotReset(ss) == ss

\* dw1000_tag_start_ranging_event: the subsequence index of the new event
FirstSubsequence(ss) == 0

\* the start arming the timer with the listening-window task
StartTimerTask_Listening == TASK_LISTENING

\* dw1000_tag_start_ranging_event: the callback given to timer_start
StartTimerTask == TASK_SUBSEQUENCE

\* dw1000_tag_start_ranging_event
dw1000_tag_start_ranging_event ==
  /\ events < MaxEvents
  /\ tag_state' = TSTATE_BROADCASTS
  /\ ranging_broadcast_ss_send_times' =
       ClearSendTimes(ranging_broadcast_ss_send_times)
  /\ ranging_broadcast_ss_num' = FirstSubsequence(ranging_broadcast_ss_num)
  /\ timer_running' = TRUE
  /\ timer_task' = StartTimerTask
  /\ calls' = <<Call("timer_start", 0)>>
  /\ sent' = <<>>
  /\ events' = events + 1
  /\ tx_failed' = FALSE
  /\ op' = Op("dw1000_tag_start_ranging_event", "none", "none", 0)
  /\ UNCHANGED <<ranging_listening_window_num, anchor_response_count,
                 anchor_response_times, pkt_seqNum, pkt_subsequence,
                 systime, tx_inflight>>

\* ------------------------------------------------------------------------
\* the response-expected test comparing with NUM_RANGING_BROADCASTS
SendPollIsLast_OffByOne(ss) == ss = NUM_RANGING_BROADCASTS

\* send_poll: the test that selects the transmission with
\* DWT_RESPONSE_EXPECTED
SendPollIsLast(ss) == ss = NUM_RANGING_BROADCASTS - 1

\* the scheduled transmit time without the clock reading
DelayTime_NoClock(now) == ClearLowBit(DW_DELAY_FROM_PKT_LEN)

\* send_poll: the scheduled transmit time computed from the clock reading
DelayTime(now) == ClearLowBit(Add32(now, DW_DELAY_FROM_PKT_LEN))

\* the store into the slot after the current one
StoreSendTime_NextSlot(times, ss, delay_time) ==
  IF ss + 1 \in SendSlots
  THEN [times EXCEPT ![ss + 1] = Shl8(delay_time)] ELSE times

\* send_poll: the store into _ranging_broadcast_ss_send_times
StoreSendTime(times, ss, delay_time) ==
  IF ss \in SendSlots THEN [times EXCEPT ![ss] = Shl8(delay_time)] ELSE times

\* send_poll: the driver calls and the store of the send time, in program
\* order
SendPollCalls(ss) ==
  <<Call("dwt_forcetrxoff", 0), Call("dwt_setdelayedtrxtime", 0),
    Call("store_ss_send_time", ss)>>
  \o (IF SendPollIsLast(ss)
      THEN <<Call("dwt_setrxaftertxdelay", 1),
             Call("dwt_starttx_DELAYED_RESPONSE_EXPECTED", ss)>>
      ELSE <<Call("dwt_starttx_DELAYED", ss)>>)

\* the increment stopping at 255
NextSeqNum_Saturating(n) == IF n = 255 THEN 255 ELSE n + 1

\* send_poll: pp_tag_poll_pkt.header.seqNum++ on a uint8_t
NextSeqNum(n) == (n + 1) % 256

\* send_poll, with the clock reading now
send_poll(now) ==
  /\ pkt_seqNum' = NextSeqNum(pkt_seqNum)
  /\ pkt_subsequence' = ranging_broadcast_ss_num
  /\ ranging_broadcast_ss_send_times' =
       StoreSendTime(ranging_broadcast_ss_send_times,
                     ranging_broadcast_ss_num, DelayTime(now))
  /\ tx_inflight' = ranging_broadcast_ss_num
  /\ sent' = Append(sent, pkt_subsequence')

\* the stop test comparing with NUM_RANGING_BROADCASTS
SubsequenceIsLast_OffByOne(ss) == ss = NUM_RANGING_BROADCASTS

\* ranging_broadcast_subsequence_task: the test that stops the timer
SubsequenceIsLast(ss) == ss = NUM_RANGING_BROADCASTS - 1

\* ranging_broadcast_subsequence_task, with the clock reading now
ranging_broadcast_subsequence_task(now) ==
  /\ timer_running' = (IF SubsequenceIsLast(ranging_broadcast_ss_num)
                       THEN FALSE ELSE timer_running)
  /\ send_poll(now)
  /\ ranging_broadcast_ss_num' = (ranging_broadcast_ss_num + 1) % 256
  /\ calls' =
       (IF SubsequenceIsLast(ranging_broadcast_ss_num)
        THEN <<Call("timer_stop", 0)>> ELSE <<>>)
       \o <<Call("dw1000_set_ranging_broadcast_subsequence_settings",
                 ranging_broadcast_ss_num)>>
       \o SendPollCalls(ranging_broadcast_ss_num)
  /\ op' = Op(TASK_SUBSEQUENCE, "timer", "none", ranging_broadcast_ss_num)
  /\ UNCHANGED <<tag_state, ranging_listening_window_num,
                 anchor_response_count, anchor_response_times, timer_task,
                 events, tx_failed>>

\* ranging_listening_window_task: the test that ends the listening phase
WindowsDone(w) == w = NUM_RANGING_LISTENING_WINDOWS

\* ranging_listening_window_task
ranging_listening_window_task ==
  /\ IF WindowsDone(ranging_listening_window_num)
     THEN /\ timer_running' = FALSE
          /\ tag_state' = TSTATE_CALCULATE_RANGE
          /\ calls' = <<Call("timer_stop", 0), Call("dwt_forcetrxoff", 0),
                        Call("calculate_ranges", 0)>>
          /\ UNCHANGED ranging_listening_window_num
     ELSE /\ calls' =
               <<Call("dw1000_set_ranging_listening_window_settings",
                      ranging_listening_window_num)>>
          /\ ranging_listening_window_num' =
               (ranging_listening_window_num + 1) % 256
          /\ UNCHANGED <<timer_running, tag_state>>
  /\ op' = Op(TASK_LISTENING, "timer", "none", ranging_listening_window_num)
  /\ UNCHANGED <<ranging_broadcast_ss_num, ranging_broadcast_ss_send_times,
                 anchor_response_count, anchor_response_times, pkt_seqNum,
                 pkt_subsequence, timer_task, tx_inflight, sent, events,
                 tx_failed>>

\* The timer service: while the timer is armed it calls the callback it was
\* started with, one period of the hardware clock after the previous fire.
TimerFire ==
  /\ timer_running
  /\ \E d \in ClockSteps :
       LET now == Add32(systime, d) IN
         /\ systime' = now
         /\ IF timer_task = TASK_SUBSEQUENCE
            THEN ranging_broadcast_subsequence_task(now)
            ELSE ranging_listening_window_task

\* ------------------------------------------------------------------------
\* the test of the transmit callback comparing with TSTATE_BROADCASTS
TxDoneAdvances_Broadcasts(st) == st = TSTATE_BROADCASTS

\* dw1000_tag_txcallback: the state in which DWT_SIG_TX_DONE starts the
\* listening phase
TxDoneAdvances(st) == st = TSTATE_TRANSITION_TO_ANC_FINAL

\* the failure branch without timer_stop
TimerAfterTxFailure_NotStopped(running) == running

\* dw1000_tag_txcallback: the timer after an event other than
\* DWT_SIG_TX_DONE
TimerAfterTxFailure(running) == FALSE

\* dw1000_tag_txcallback(data), data->event = ev
dw1000_tag_txcallback(ev) ==
  /\ IF ev = DWT_SIG_TX_DONE
     THEN IF TxDoneAdvances(tag_state)
          THEN /\ tag_state' = TSTATE_LISTENING
               /\ ranging_listening_window_num' = 0
               /\ anchor_response_count' = 0
               /\ timer_running' = TRUE
               /\ timer_task' = TASK_LISTENING
               /\ calls' = <<Call("timer_start", 1)>>
          ELSE /\ calls' = <<>>
               /\ UNCHANGED <<tag_state, ranging_listening_window_num,
                              anchor_response_count, timer_running,
                              timer_task>>
     ELSE /\ timer_running' = TimerAfterTxFailure(timer_running)
          /\ calls' = <<Call("timer_stop", 0)>>
          /\ UNCHANGED <<tag_state, ranging_listening_window_num,
                         anchor_response_count, timer_task>>
  /\ tx_inflight' = NoPkt
  /\ tx_failed' = (tx_failed \/ ev # DWT_SIG_TX_DONE)
  /\ op' = Op("dw1000_tag_txcallback", ev, "none", tx_inflight)
  /\ UNCHANGED <<ranging_broadcast_ss_num, ranging_broadcast_ss_send_times,
                 anchor_response_times, pkt_seqNum, pkt_subsequence, systime,
                 sent, events>>

\* ------------------------------------------------------------------------
\* the message-type test accepting every type but TAG_POLL
IsAncFinal_NotPoll(msg) == msg # MSG_TYPE_PP_NOSLOTS_TAG_POLL

\* dw1000_tag_rxcallback: the test on the message-type byte
IsAncFinal(msg) == msg = MSG_TYPE_PP_NOSLOTS_ANC_FINAL

\* the drop test with > in place of >=
ResponsesFull_OffByOne(count) == count > MAX_NUM_ANCHOR_RESPONSES

\* dw1000_tag_rxcallback: the test that drops an ANC_FINAL packet
ResponsesFull(count) == count >= MAX_NUM_ANCHOR_RESPONSES

\* dw1000_tag_rxcallback: the record built from the packet of anchor a
ResponseRecord(a) ==
  [anchor_addr |-> a, tag_poll_TOAs |-> TOAsOf(a),
   anc_final_tx_timestamp |-> Shl8(DwTimeSentOf(a)),
   anc_final_rx_timestamp |-> RxTimestampOf(a)]

\* the store always into the first record
StoreResponse_FirstSlot(times, count, a) ==
  [times EXCEPT ![0] = ResponseRecord(a)]

\* dw1000_tag_rxcallback: the store into _anchor_response_times
StoreResponse(times, count, a) ==
  IF count \in RecordSlots
  THEN [times EXCEPT ![count] = ResponseRecord(a)] ELSE times

\* dw1000_tag_rxcallback: the events after which the listening window is
\* configured again
RxNeedsReconfigure(ev) == ev \in RxErrorEvents

\* dw1000_tag_rxcallback(rxd), rxd->event = ev; for DWT_SIG_RX_OKAY the
\* packet read has message type msg and source address a
dw1000_tag_rxcallback(ev, msg, a) ==
  /\ IF ev = DWT_SIG_RX_OKAY
     THEN IF IsAncFinal(msg)
          THEN IF ResponsesFull(anchor_response_count)
               THEN /\ calls' = <<Call("dwt_readrxdata", 0)>>
                    /\ UNCHANGED <<anchor_response_count,
                                   anchor_response_times>>
               ELSE /\ anchor_response_times' =
                         StoreResponse(anchor_response_times,
                                       anchor_response_count, a)
                    /\ anchor_response_count' =
                         (anchor_response_count + 1) % 256
                    /\ calls' = <<Call("dwt_readrxdata", 0)>>
          ELSE /\ calls' = <<Call("dwt_readrxdata", 0)>>
               /\ UNCHANGED <<anchor_response_count, anchor_response_times>>
     ELSE /\ calls' =
               (IF RxNeedsReconfigure(ev)
                THEN <<Call("dw1000_set_ranging_listening_window_settings",
                            ranging_listening_window_num)>>
                ELSE <<>>)
          /\ UNCHANGED <<anchor_response_count, anchor_response_times>>
  /\ op' = Op("dw1000_tag_rxcallback", ev, msg, a)
  /\ UNCHANGED <<tag_state, ranging_broadcast_ss_num,
                 ranging_listening_window_num,
                 ranging_broadcast_ss_send_times, pkt_seqNum,
                 pkt_subsequence, timer_running, timer_task, systime,
                 tx_inflight, sent, events, tx_failed>>

\* The radio driver reports the end of a transmission.
TxCallback == \E ev \in TxEvents : dw1000_tag_txcallback(ev)

\* The radio driver reports a received frame or a receive fault.
RxCallback ==
  \/ \E msg \in MessageTypes, a \in Anchors :
       dw1000_tag_rxcallback(DWT_SIG_RX_OKAY, msg, a)
  \/ \E ev \in RxEvents \ {DWT_SIG_RX_OKAY} :
       dw1000_tag_rxcallback(ev, "none", NoAnchor)

Next ==
  \/ dw1000_tag_start_ranging_event
  \/ TimerFire
  \/ TxCallback
  \/ RxCallback

Spec == Init /\ [][Next]_vars

\* ------------------------------------------------------------------------
\* The tag after earlier ranging events: all broadcasts of the last event
\* were sent and reported, the timer is stopped, and the header sequence
\* number has counted the broadcasts sent so far.  SeqStart broadcasts were
\* sent, a whole number of events.
SeqStart == NUM_RANGING_BROADCASTS * (252 \div NUM_RANGING_BROADCASTS)

RECURSIVE ClockAfter(_, _, _)
\* the clock reading n timer periods of d after the reading c
ClockAfter(c, d, n) ==
  IF n = 0 THEN c ELSE ClockAfter(Add32(c, d), d, n - 1)

InitAfterEvents ==
  \E c \in StartClocks, d \in ClockSteps :
    /\ tag_state = TSTATE_BROADCASTS
    /\ ranging_broadcast_ss_num = NUM_RANGING_BROADCASTS
    /\ ranging_listening_window_num = 0
    /\ ranging_broadcast_ss_send_times =
         [i \in SendSlots |-> Shl8(DelayTime(ClockAfter(c, d, i + 1)))]
    /\ anchor_response_count = 0
    /\ anchor_response_times = [i \in RecordSlots |-> EmptyRecord]
    /\ pkt_seqNum = SeqStart
    /\ pkt_subsequence = NUM_RANGING_BROADCASTS - 1
    /\ timer_running = FALSE
    /\ timer_task = TASK_SUBSEQUENCE
    /\ systime = ClockAfter(c, d, NUM_RANGING_BROADCASTS)
    /\ tx_inflight = NoPkt
    /\ sent = [k \in 1..NUM_RANGING_BROADCASTS |-> k - 1]
    /\ events = 0
    /\ tx_failed = FALSE
    /\ calls = <<>>
    /\ op = Op("dw1000_tag_txcallback", DWT_SIG_TX_DONE, "none",
               NUM_RANGING_BROADCASTS - 1)

SeqSpec == InitAfterEvents /\ [][Next]_vars

\* The timer service keeps firing while armed and the radio reports every
\* transmission it was handed.
TxReport == tx_inflight # NoPkt /\ dw1000_tag_txcallback(DWT_SIG_TX_DONE)

LiveSpec == Spec /\ WF_vars(TimerFire) /\ WF_vars(TxReport)

TypeOK ==
  /\ tag_state \in TagStates
  /\ ranging_broadcast_ss_num \in 0..255
  /\ ranging_listening_window_num \in 0..255
  /\ anchor_response_count \in 0..255
  /\ pkt_seqNum \in 0..255
  /\ timer_task \in {TASK_NONE, TASK_SUBSEQUENCE, TASK_LISTENING}

\* ------------------------------------------------------------------------
\* Steps, named by the handler that ran last.
IsTxCallback(o) == o.name = "dw1000_tag_txcallback"
IsRxCallback(o) == o.name = "dw1000_tag_rxcallback"
IsStart(o) == o.name = "dw1000_tag_start_ranging_event"
IsTimerTask(o) == o.name \in {TASK_SUBSEQUENCE, TASK_LISTENING}

AllSendTimesZero(times) == \A i \in DOMAIN times : times[i] = ZeroTime

\* the DWT_SIG_TX_DONE callback that reports the last broadcast of an event
\* whose broadcasts were all sent
LastBroadcastConfirmed ==
  /\ IsTxCallback(op)
  /\ op.event = DWT_SIG_TX_DONE
  /\ op.arg = NUM_RANGING_BROADCASTS - 1
  /\ Len(sent) = NUM_RANGING_BROADCASTS

\* The state named in the transmit callback's test is assigned nowhere in
\* the file, so the tag never leaves TSTATE_BROADCASTS once an event started.
StateNeverAdvances == tag_state \in {TSTATE_IDLE, TSTATE_BROADCASTS}

\* C1: after the start of an event and its NUM_RANGING_BROADCASTS
\* subsequence-timer fires, the DWT_SIG_TX_DONE callback for the last
\* broadcast leaves the tag in TSTATE_LISTENING, with the listening-window
\* index and the response count 0 and the timer armed with the
\* listening-window task.
C1_LastTxDoneStartsListening ==
  LastBroadcastConfirmed =>
    /\ tag_state = TSTATE_LISTENING
    /\ ranging_listening_window_num = 0
    /\ anchor_response_count = 0
    /\ timer_running
    /\ timer_task = TASK_LISTENING

\* C2: every event started, with the timer firing while armed and every
\* transmission reported, eventually reaches TSTATE_CALCULATE_RANGE, unless
\* a transmit failure is reported or a new event is started first.
C2_EventReachesCalculateRange ==
  \A e \in 1..MaxEvents :
    (events = e /\ ~tx_failed)
      ~> (tag_state = TSTATE_CALCULATE_RANGE \/ tx_failed \/ events > e)

\* C4: the response count never exceeds MAX_NUM_ANCHOR_RESPONSES, and an
\* ANC_FINAL packet received when the count equals the maximum leaves the
\* count and every stored record unchanged.
C4_ResponsesBounded ==
  /\ [](anchor_response_count <= MAX_NUM_ANCHOR_RESPONSES)
  /\ [][(/\ IsRxCallback(op')
         /\ op'.event = DWT_SIG_RX_OKAY
         /\ op'.msg = MSG_TYPE_PP_NOSLOTS_ANC_FINAL
         /\ anchor_response_count = MAX_NUM_ANCHOR_RESPONSES)
        => UNCHANGED <<anchor_response_count, anchor_response_times>>]_vars

\* an ANC_FINAL packet of an anchor other than the one in the last slot has
\* arrived with the store full, and was dropped
C4_Witness ==
  /\ IsRxCallback(op)
  /\ op.event = DWT_SIG_RX_OKAY
  /\ op.msg = MSG_TYPE_PP_NOSLOTS_ANC_FINAL
  /\ anchor_response_count = MAX_NUM_ANCHOR_RESPONSES
  /\ anchor_response_times[MAX_NUM_ANCHOR_RESPONSES - 1].anchor_addr # op.arg
  /\ \A i \in RecordSlots : anchor_response_times[i].anchor_addr # NoAnchor

\* states in which an event is in flight
InFlight ==
  {TSTATE_BROADCASTS, TSTATE_TRANSITION_TO_ANC_FINAL, TSTATE_LISTENING}

\* C5 (as stated): a start of a ranging event while an event is in flight
\* changes neither the tag state, the subsequence index, the send-time
\* array, the listening-window index, the response count nor the timer.
C5_StartInFlightIsNoOp ==
  [][(IsStart(op') /\ tag_state \in InFlight)
     => UNCHANGED <<tag_state, ranging_broadcast_ss_num,
                    ranging_broadcast_ss_send_times,
                    ranging_listening_window_num, anchor_response_count,
                    timer_running, timer_task>>]_vars

\* C5 (amended): a start of a ranging event while an event is in flight is
\* accepted and restarts the event: the state is TSTATE_BROADCASTS, the
\* subsequence index 0, every send-time slot 0 and the timer armed with the
\* subsequence task; the listening-window index, the response count and the
\* records are unchanged.
C5_StartInFlightRestarts ==
  [][(IsStart(op') /\ tag_state \in InFlight)
     => /\ tag_state' = TSTATE_BROADCASTS
        /\ ranging_broadcast_ss_num' = 0
        /\ AllSendTimesZero(ranging_broadcast_ss_send_times')
        /\ timer_running' /\ timer_task' = TASK_SUBSEQUENCE
        /\ UNCHANGED <<ranging_listening_window_num, anchor_response_count,
                       anchor_response_times>>]_vars

\* an event was restarted after exactly one broadcast of the event before
C5_Witness ==
  /\ IsStart(op)
  /\ events = 2
  /\ pkt_seqNum = 1
  /\ ranging_broadcast_ss_num = 0
  /\ AllSendTimesZero(ranging_broadcast_ss_send_times)

\* C6 (as stated): right after the start of a ranging event every send-time
\* slot is 0 and the response count is 0.
C6_StartClearsEventData ==
  IsStart(op) =>
    /\ AllSendTimesZero(ranging_broadcast_ss_send_times)
    /\ anchor_response_count = 0

\* C6 (amended): right after the start of a ranging event every send-time
\* slot is 0; the response count and the stored records are not cleared by
\* the start, they keep the values they had.
C6_StartClearsSendTimesOnly ==
  [][IsStart(op')
     => /\ AllSendTimesZero(ranging_broadcast_ss_send_times')
        /\ UNCHANGED <<anchor_response_count, anchor_response_times>>]_vars

\* a second event was started after a complete first one during which a
\* response was stored: the send times are cleared, the response is counted
C6_Witness ==
  /\ IsStart(op)
  /\ events = 2
  /\ pkt_seqNum = NUM_RANGING_BROADCASTS
  /\ anchor_response_count > 0
  /\ AllSendTimesZero(ranging_broadcast_ss_send_times)

\* C7: a transmit callback with an event other than DWT_SIG_TX_DONE stops
\* the timer and changes neither the tag state nor a counter; from then
\* until the next start of an event no timer task runs, no broadcast is
\* sent, no window advances and the state does not change.
C7_TxFailureHaltsEvent ==
  /\ [][(IsTxCallback(op') /\ op'.event # DWT_SIG_TX_DONE)
        => /\ ~timer_running'
           /\ UNCHANGED <<tag_state, ranging_broadcast_ss_num,
                          ranging_listening_window_num,
                          anchor_response_count>>]_vars
  /\ [][(tx_failed /\ ~IsStart(op'))
        => /\ ~IsTimerTask(op')
           /\ ~timer_running'
           /\ UNCHANGED <<tag_state, ranging_broadcast_ss_num,
                          ranging_listening_window_num, sent>>]_vars

\* a transmit failure arrived after the first broadcast of an event, and a
\* later callback found the event where the failure left it
C7_Witness ==
  /\ tx_failed
  /\ IsRxCallback(op)
  /\ tag_state = TSTATE_BROADCASTS
  /\ Len(sent) = 1
  /\ ranging_broadcast_ss_num = 1
  /\ ~timer_running

\* C9: a successfully received packet whose message type is not
\* MSG_TYPE_PP_NOSLOTS_ANC_FINAL changes neither the tag state, the
\* response count, the records, the two indices nor the timer.
C9_OtherMessageIgnored ==
  [][(/\ IsRxCallback(op')
      /\ op'.event = DWT_SIG_RX_OKAY
      /\ op'.msg # MSG_TYPE_PP_NOSLOTS_ANC_FINAL)
     => UNCHANGED <<tag_state, anchor_response_count, anchor_response_times,
                    ranging_broadcast_ss_num, ranging_listening_window_num,
                    timer_running, timer_task>>]_vars

\* a TAG_POLL was received during an event, with a record stored and room
\* for more
C9_Witness ==
  /\ IsRxCallback(op)
  /\ op.event = DWT_SIG_RX_OKAY
  /\ op.msg = MSG_TYPE_PP_NOSLOTS_TAG_POLL
  /\ anchor_response_count = 1
  /\ timer_running
  /\ tag_state = TSTATE_BROADCASTS

\* C10: in an event that is neither restarted nor aborted, the k-th packet
\* handed to the radio carries subsequence field k, never more than
\* NUM_RANGING_BROADCASTS packets are sent, the timer stays armed with the
\* subsequence task until the last of them and is stopped at the last one.
C10_BroadcastsInOrder ==
  /\ Len(sent) <= NUM_RANGING_BROADCASTS
  /\ \A k \in 1..Len(sent) : sent[k] = k - 1
  /\ Len(sent) = NUM_RANGING_BROADCASTS
       => ~(timer_running /\ timer_task = TASK_SUBSEQUENCE)
  /\ (events > 0 /\ ~tx_failed /\ Len(sent) < NUM_RANGING_BROADCASTS)
       => (timer_running /\ timer_task = TASK_SUBSEQUENCE)

\* all broadcasts of an event were sent and a callback arrived afterwards
C10_Witness ==
  /\ Len(sent) = NUM_RANGING_BROADCASTS
  /\ ~tx_failed
  /\ ~timer_running
  /\ IsTxCallback(op)
  /\ pkt_subsequence = NUM_RANGING_BROADCASTS - 1

\* all broadcasts of the event were handed to the radio and no transmit
\* failure was reported
BroadcastsComplete == Len(sent) = NUM_RANGING_BROADCASTS /\ ~tx_failed

\* C11 (as stated): after a complete successful event every send-time slot
\* is non-zero and slot i+1 holds a strictly larger value than slot i, for
\* every value of the 32-bit clock.
C11_SendTimesIncreasing ==
  BroadcastsComplete =>
    /\ \A i \in SendSlots : ranging_broadcast_ss_send_times[i] # ZeroTime
    /\ \A i \in SendSlots \ {NUM_RANGING_BROADCASTS - 1} :
         TimeLess(ranging_broadcast_ss_send_times[i],
                  ranging_broadcast_ss_send_times[i + 1])

\* C11 (amended): after a complete successful event slot i+1 is strictly
\* later than slot i in unsigned 32-bit wraparound arithmetic on the
\* scheduled times, and the last slot holds the scheduled time of the last
\* clock reading shifted left by 8.
C11_SendTimesLaterModulo ==
  BroadcastsComplete =>
    /\ \A i \in SendSlots \ {NUM_RANGING_BROADCASTS - 1} :
         LaterMod32(ranging_broadcast_ss_send_times[i],
                    ranging_broadcast_ss_send_times[i + 1])
    /\ ranging_broadcast_ss_send_times[NUM_RANGING_BROADCASTS - 1]
         = Shl8(ClearLowBit(Add32(systime, DW_DELAY_FROM_PKT_LEN)))

\* a complete event during which the scheduled time wrapped around 2^32:
\* the last slot holds a smaller value than the first
C11_Witness ==
  /\ BroadcastsComplete
  /\ TimeLess(ranging_broadcast_ss_send_times[NUM_RANGING_BROADCASTS - 1],
              ranging_broadcast_ss_send_times[0])

\* C13: a start of a ranging event in TSTATE_IDLE or TSTATE_CALCULATE_RANGE
\* sets the state to TSTATE_BROADCASTS, zeroes every send-time slot, resets
\* the subsequence index to 0 and arms the timer with the subsequence task.
C13_StartFromIdleOrTerminal ==
  [][(IsStart(op') /\ tag_state \in {TSTATE_IDLE, TSTATE_CALCULATE_RANGE})
     => /\ tag_state' = TSTATE_BROADCASTS
        /\ AllSendTimesZero(ranging_broadcast_ss_send_times')
        /\ ranging_broadcast_ss_num' = 0
        /\ timer_running'
        /\ timer_task' = TASK_SUBSEQUENCE
        /\ calls' = <<Call("timer_start", 0)>>]_vars

\* the first event was started, from TSTATE_IDLE, with a response already
\* counted
C13_Witness ==
  /\ IsStart(op)
  /\ events = 1
  /\ tag_state = TSTATE_BROADCASTS
  /\ ranging_broadcast_ss_num = 0
  /\ timer_running
  /\ timer_task = TASK_SUBSEQUENCE
  /\ anchor_response_count = 1

\* the last handler configured the listening window
ConfiguredWindow(cs) ==
  \E k \in 1..Len(cs) :
    cs[k].fn = "dw1000_set_ranging_listening_window_settings"

\* states outside the listening phase
NotListening ==
  {TSTATE_IDLE, TSTATE_BROADCASTS, TSTATE_TRANSITION_TO_ANC_FINAL,
   TSTATE_CALCULATE_RANGE}

\* C15 (as stated): a receive callback, success or error, that arrives
\* outside the listening phase changes neither the response count nor a
\* record and does not configure the listening window.
C15_ReceiveOnlyWhenListening ==
  [][(IsRxCallback(op') /\ tag_state \in NotListening)
     => /\ UNCHANGED <<anchor_response_count, anchor_response_times>>
        /\ ~ConfiguredWindow(calls')]_vars

\* C15 (amended): the receive callback acts alike in every tag state, the
\* states outside the listening phase included: an ANC_FINAL packet received
\* while the count is below MAX_NUM_ANCHOR_RESPONSES is stored in the record
\* the count names and the count grows by one, and each of the five receive
\* errors configures the listening window of the current window index once
\* and leaves the count and the records unchanged.
C15_ReceiveInEveryState ==
  [][(IsRxCallback(op') /\ tag_state \in NotListening)
     => /\ (/\ op'.event = DWT_SIG_RX_OKAY
            /\ op'.msg = MSG_TYPE_PP_NOSLOTS_ANC_FINAL
            /\ anchor_response_count < MAX_NUM_ANCHOR_RESPONSES)
           => /\ anchor_response_count' = anchor_response_count + 1
              /\ anchor_response_times' =
                   [anchor_response_times EXCEPT
                      ![anchor_response_count] = ResponseRecord(op'.arg)]
        /\ op'.event \in RxErrorEvents
           => /\ calls' =
                   <<Call("dw1000_set_ranging_listening_window_settings",
                          ranging_listening_window_num)>>
              /\ UNCHANGED <<anchor_response_count,
                             anchor_response_times>>]_vars

\* an ANC_FINAL packet was stored while the tag was broadcasting, after the
\* second broadcast of the event
C15_Witness ==
  /\ IsRxCallback(op)
  /\ op.event = DWT_SIG_RX_OKAY
  /\ op.msg = MSG_TYPE_PP_NOSLOTS_ANC_FINAL
  /\ tag_state = TSTATE_BROADCASTS
  /\ timer_running
  /\ Len(sent) = 2
  /\ anchor_response_count = 1
  /\ anchor_response_times[0] = ResponseRecord(op.arg)

\* C16: a DWT_SIG_TX_DONE callback in a state other than the one awaiting
\* the confirmation of the last broadcast changes neither the state, the
\* two indices, the response count nor the timer.
C16_TxDoneElsewhereIgnored ==
  [][(/\ IsTxCallback(op')
      /\ op'.event = DWT_SIG_TX_DONE
      /\ tag_state # TSTATE_TRANSITION_TO_ANC_FINAL)
     => /\ UNCHANGED <<tag_state, ranging_broadcast_ss_num,
                       ranging_listening_window_num, anchor_response_count,
                       timer_running, timer_task>>
        /\ calls' = <<>>]_vars

\* the first broadcast of an event was reported as sent while the timer
\* was still armed for the next one
C16_Witness ==
  /\ IsTxCallback(op)
  /\ op.event = DWT_SIG_TX_DONE
  /\ op.arg = 0
  /\ Len(sent) = 1
  /\ tag_state = TSTATE_BROADCASTS
  /\ timer_running
  /\ timer_task = TASK_SUBSEQUENCE

IsStartTx(c) ==
  c.fn \in {"dwt_starttx_DELAYED", "dwt_starttx_DELAYED_RESPONSE_EXPECTED"}

\* in the calls cs the send time of slot i is stored before the
\* transmission of packet i is started
StoredBeforeStartTx(cs, i) ==
  \E j, k \in 1..Len(cs) :
    /\ j < k
    /\ cs[j] = Call("store_ss_send_time", i)
    /\ IsStartTx(cs[k]) /\ cs[k].arg = i
    /\ \A l \in 1..j : ~IsStartTx(cs[l])

\* C17: the subsequence task writes a send-time slot with an index below
\* NUM_RANGING_BROADCASTS; within an event the slots are written in
\* increasing index order, each once (the slots not yet reached are zero,
\* the task writes the slot after the last one written and no other), and
\* the slot is written before the transmission of its packet is started.
C17_SlotsWrittenInOrder ==
  /\ [](\A i \in SendSlots :
          i >= Len(sent) => ranging_broadcast_ss_send_times[i] = ZeroTime)
  /\ [][op'.name = TASK_SUBSEQUENCE
        => /\ op'.arg \in SendSlots
           /\ op'.arg = Len(sent)
           /\ ranging_broadcast_ss_send_times' =
                [ranging_broadcast_ss_send_times EXCEPT
                   ![op'.arg] = Shl8(DelayTime(systime'))]
           /\ StoredBeforeStartTx(calls', op'.arg)]_vars

\* the task has written the last slot, after the others
C17_Witness ==
  /\ op.name = TASK_SUBSEQUENCE
  /\ op.arg = NUM_RANGING_BROADCASTS - 1
  /\ Len(sent) = NUM_RANGING_BROADCASTS
  /\ \A i \in SendSlots : ranging_broadcast_ss_send_times[i] # ZeroTime
  /\ StoredBeforeStartTx(calls, NUM_RANGING_BROADCASTS - 1)

\* the transmissions started by the last handler
StartTxCalls(cs) == SelectSeq(cs, IsStartTx)

\* C19: every broadcast is started once, the one with subsequence index
\* NUM_RANGING_BROADCASTS-1 with the response-expected option and every
\* other one without it.
C19_ResponseExpectedOnLastOnly ==
  op.name = TASK_SUBSEQUENCE =>
    /\ Len(StartTxCalls(calls)) = 1
    /\ StartTxCalls(calls)[1].arg = op.arg
    /\ (StartTxCalls(calls)[1].fn = "dwt_starttx_DELAYED_RESPONSE_EXPECTED")
         <=> (op.arg = NUM_RANGING_BROADCASTS - 1)
    /\ (\E k \in 1..Len(calls) : calls[k].fn = "dwt_setrxaftertxdelay")
         <=> (op.arg = NUM_RANGING_BROADCASTS - 1)

\* the last broadcast of the second event was started with the
\* response-expected option
C19_Witness ==
  /\ op.name = TASK_SUBSEQUENCE
  /\ events = 2
  /\ op.arg = NUM_RANGING_BROADCASTS - 1
  /\ tx_inflight = NUM_RANGING_BROADCASTS - 1
  /\ Call("dwt_starttx_DELAYED_RESPONSE_EXPECTED",
          NUM_RANGING_BROADCASTS - 1) \in {calls[k] : k \in 1..Len(calls)}

\* C20: the header sequence number is an 8-bit counter: every broadcast
\* increments it by exactly 1 modulo 256 (255 is followed by 0), and no
\* other handler, the start of an event included, changes it.
C20_SeqNumConsecutive ==
  /\ [](pkt_seqNum \in 0..255)
  /\ [][IF op'.name = TASK_SUBSEQUENCE
        THEN pkt_seqNum' = (pkt_seqNum + 1) % 256
        ELSE pkt_seqNum' = pkt_seqNum]_vars

\* a broadcast of the second event carries sequence number 0, the
\* successor of 255
C20_Witness ==
  /\ op.name = TASK_SUBSEQUENCE
  /\ events = 2
  /\ pkt_seqNum = 0

====
